---- MODULE Spec2Model ----
(***************************************************************************)
(* Model of jb-repo-indexer: the store (db/mod.rs), the reconciliation     *)
(* engine (meta/mod.rs, meta/sync.rs), the statistics accountant           *)
(* (statistics.rs) and the permit protocol of the repo client (api/mod.rs).*)
(*                                                                         *)
(* Spec        the reconciliation engine: driver, dispatch tree, store.    *)
(*             An upstream request reads only the frozen catalogue, so it  *)
(*             is folded into the store call that follows it. No call      *)
(*             fails, and the accountant's channel is left unread.         *)
(* FaultSpec   one run of the engine in which calls may fail and the       *)
(*             driver's select! polls the accountant.                      *)
(* PermitSpec  the repo client's two semaphores under concurrent callers.  *)
(* FairPermitSpec  PermitSpec with the runtime's fair scheduling.          *)
(* MainSpec    Spec started from the command line, with or without         *)
(*             --no-sync.                                                  *)
(* CallSpec    the statements of the store and hash_download_url, called   *)
(*             one at a time on drawn arguments.                           *)
(***************************************************************************)
EXTENDS Integers, Sequences, FiniteSets, TLC

VARIABLES
    plugins,                  \* table plugins: set of CachedPlugin
    versions,                 \* table versions: set of CachedPluginVersion
    updates,                  \* table updates: id -> row without the id
    update_dependencies,      \* table update_dependencies: set of CachedUpdateDependency
    remote,                   \* the upstream catalogue, frozen
    driver,                   \* sync_plugin_metadata: [pc, run, local, remote]
    tasks,                    \* the tracker's tasks: task id -> task state
    calls,                    \* what the run has asked of store and upstream so far
    prevStore,                \* the store as the previous run left it
    statistics,               \* the StatisticsCollector of the run and its channel
    call,                     \* the last call made on the store or the repo client directly
    args,                     \* IndexerArgs: the two request budgets and --no-sync
    small_request_semaphore,  \* [permits, waiters]
    large_request_semaphore,  \* [permits, waiters]
    requests                  \* caller -> the repo client operation it is in

storeVars == <<plugins, versions, updates, update_dependencies>>
engineVars == <<remote, driver, tasks, calls, prevStore, statistics, call>>
permitVars == <<args, small_request_semaphore, large_request_semaphore, requests>>
vars == <<storeVars, engineVars, permitVars>>

----------------------------------------------------------------------------
(* Bounds of the model *)

MaxRuns == 2          \* consecutive runs of the indexer on the same store
MaxVersions == 1      \* length of a plugin's upstream version list
NumCallers == 3       \* concurrent callers of the repo client
MaxBudget == 2        \* largest request budget tried
MaxFaults == 1        \* calls of tasks that fail in one run

----------------------------------------------------------------------------
(* Values *)

None == "None"                       \* Option::None, SQL NULL

XmlIds == {"p1", "p2"}
VersionStrings == {"1.0", "2.0"}
UpdateIds == {1000, 2000}

\* The numeric id upstream assigned to a plugin.
NumericId(xml_id) == IF xml_id = "p1" THEN 41 ELSE 42

RECURSIVE SeqsOver(_, _)
\* All sequences over S of length at most n.
SeqsOver(S, n) ==
    IF n = 0 THEN {<<>>}
    ELSE LET shorter == SeqsOver(S, n - 1)
         IN shorter \cup {Append(s, x) : s \in {t \in shorter : Len(t) = n - 1}, x \in S}

Range(s) == {s[i] : i \in DOMAIN s}

----------------------------------------------------------------------------
(* Store: db/mod.rs *)

\* A row as "INSERT OR IGNORE INTO updates (id)" creates it: the column defaults.
NewUpdateRow ==
    [stale |-> TRUE, etag |-> None, file_name |-> None, download_url |-> None,
     hash_algorithm |-> None, hash |-> None]

Store == [plugins |-> plugins, versions |-> versions, updates |-> updates,
          update_dependencies |-> update_dependencies]

known_plugin_xml_ids(pl) == {p.xml_id : p \in pl}

\* The DELETE without the cascade to versions.
delete_plugin_row_only(st, xml_id) ==
    [st EXCEPT !.plugins = {p \in @ : p.xml_id # xml_id}]

\* DELETE FROM plugins; the versions of the plugin go with it (ON DELETE CASCADE).
\* No foreign key leads from a version to its update row's deletion.
delete_plugin_by_xml_id(st, xml_id) ==
    [st EXCEPT !.plugins = {p \in @ : p.xml_id # xml_id},
               !.versions = {v \in @ : v.plugin_xml_id # xml_id}]

\* Plain INSERT: a second row for the primary key is a constraint error.
add_plugin(st, plugin) ==
    IF plugin.xml_id \in known_plugin_xml_ids(st.plugins)
    THEN [ok |-> FALSE, store |-> st]
    ELSE [ok |-> TRUE, store |-> [st EXCEPT !.plugins = @ \cup {plugin}]]

add_update(st, update_id) ==
    IF update_id \in DOMAIN st.updates
    THEN st
    ELSE [st EXCEPT !.updates = @ @@ (update_id :> NewUpdateRow)]

\* INSERT ... ON CONFLICT DO UPDATE SET update_id, channel; both foreign keys
\* are enforced.
add_plugin_version(st, version) ==
    IF version.update_id \notin DOMAIN st.updates
       \/ version.plugin_xml_id \notin known_plugin_xml_ids(st.plugins)
    THEN [ok |-> FALSE, store |-> st]
    ELSE [ok |-> TRUE,
          store |-> [st EXCEPT !.versions =
              {v \in @ : ~(v.version = version.version
                           /\ v.plugin_xml_id = version.plugin_xml_id)}
              \cup {version}]]

get_versions_for_plugin(st, plugin_xml_id) ==
    {v \in st.versions : v.plugin_xml_id = plugin_xml_id}

\* A removal that takes the update row of the version along, and with it
\* (ON DELETE CASCADE) its dependency rows and every version bound to it.
remove_plugin_version_and_update(st, plugin_xml_id, version) ==
    LET gone == {v.update_id : v \in {w \in st.versions :
                    w.plugin_xml_id = plugin_xml_id /\ w.version = version}}
    IN [st EXCEPT !.versions = {v \in @ : v.update_id \notin gone},
                  !.updates = [u \in DOMAIN @ \ gone |-> @[u]],
                  !.update_dependencies = {d \in @ : d.update_id \notin gone}]

remove_plugin_version(st, plugin_xml_id, version) ==
    [st EXCEPT !.versions =
        {v \in @ : ~(v.plugin_xml_id = plugin_xml_id /\ v.version = version)}]

\* An upsert that first clears the dependency rows of the update.
add_update_dependency_replacing(st, dependency) ==
    IF dependency.update_id \notin DOMAIN st.updates
    THEN [ok |-> FALSE, store |-> st]
    ELSE [ok |-> TRUE,
          store |-> [st EXCEPT !.update_dependencies =
              {d \in @ : d.update_id # dependency.update_id} \cup {dependency}]]

\* INSERT ... ON CONFLICT (update_id, dependency_xml_id) DO UPDATE SET optional;
\* the foreign key to updates is enforced.
add_update_dependency(st, dependency) ==
    IF dependency.update_id \notin DOMAIN st.updates
    THEN [ok |-> FALSE, store |-> st]
    ELSE [ok |-> TRUE,
          store |-> [st EXCEPT !.update_dependencies =
              {d \in @ : ~(d.update_id = dependency.update_id
                           /\ d.dependency_xml_id = dependency.dependency_xml_id)}
              \cup {dependency}]]

\* A prologue statement that marks nothing.
mark_no_update_stale(st) == st

mark_all_updates_stale(st) ==
    [st EXCEPT !.updates = [u \in DOMAIN @ |-> [@[u] EXCEPT !.stale = TRUE]]]

\* The rows "UPDATE updates SET stale = FALSE WHERE id = ?1" reports as affected:
\* every row the WHERE clause matches, whatever its stale flag was.
AffectedRows(st, update_id) == IF update_id \in DOMAIN st.updates THEN 1 ELSE 0

mark_update_not_stale(st, update_id) ==
    [ret |-> AffectedRows(st, update_id) > 0,
     store |-> IF update_id \in DOMAIN st.updates
               THEN [st EXCEPT !.updates[update_id].stale = FALSE]
               ELSE st]

get_update(st, update_id) ==
    IF update_id \in DOMAIN st.updates
    THEN [ok |-> TRUE, update |-> st.updates[update_id]]
    ELSE [ok |-> FALSE, update |-> NewUpdateRow]

\* An UPDATE that leaves the hash_algorithm column out.
change_update_info_without_algorithm(st, update_id, update) ==
    IF update_id \in DOMAIN st.updates
    THEN [st EXCEPT !.updates[update_id] =
            [update EXCEPT !.hash_algorithm = st.updates[update_id].hash_algorithm]]
    ELSE st

\* Whole-row UPDATE ... WHERE id = ?7; no row, no change.
change_update_info(st, update_id, update) ==
    IF update_id \in DOMAIN st.updates
    THEN [st EXCEPT !.updates[update_id] = update]
    ELSE st

----------------------------------------------------------------------------
(* Upstream: the answers of plugins.jetbrains.com, as api/mod.rs decodes them *)

RepoUpdateVersion(id, version) == [id |-> id, version |-> version, channel |-> ""]

AllEntries == {RepoUpdateVersion(id, v) : id \in UpdateIds, v \in VersionStrings}

DistinctVersions(list) ==
    \A i, j \in DOMAIN list : list[i].version = list[j].version => i = j

\* The version lists upstream may publish for a plugin. p2 is the plugin that
\* ships update 1000 under its own version string.
VersionLists(xml_id) ==
    IF xml_id = "p1"
    THEN {l \in SeqsOver(AllEntries, MaxVersions) : DistinctVersions(l)}
    ELSE {l \in SeqsOver({RepoUpdateVersion(1000, "2.0")}, MaxVersions) : Len(l) = 1}

Remotes ==
    {[xml_ids |-> ids, versions |-> vs] :
        ids \in SUBSET XmlIds,
        vs \in [XmlIds -> UNION {VersionLists(x) : x \in XmlIds} \cup {<<>>}]}

WellFormedRemote(r) ==
    \A x \in XmlIds :
        IF x \in r.xml_ids THEN r.versions[x] \in VersionLists(x)
        ELSE r.versions[x] = <<>>

fetch_all_xml_ids(r) == r.xml_ids

fetch_plugin_details(r, xml_id) == [xml_id |-> xml_id, id |-> NumericId(xml_id)]

fetch_plugin_versions(r, plugin_id) ==
    LET x == CHOOSE x \in XmlIds : NumericId(x) = plugin_id IN r.versions[x]

\* meta.json of an update: 2000 names d1 in both lists.
fetch_update_metadata(r, plugin_id, update_id) ==
    IF update_id = 1000
    THEN [dependencies |-> <<"d1">>, optional_dependencies |-> <<>>]
    ELSE [dependencies |-> <<"d1">>, optional_dependencies |-> <<"d1">>]

\* The HEAD answer: final url, ETag and Content-Disposition as parsed.
\* 2000 is served without a usable ETag header.
resolve_update_download_info(r, update_id) ==
    IF update_id = 1000
    THEN [url |-> "cdn/1000.zip", etag |-> "etag-1000", file_name |-> "1000.zip"]
    ELSE [url |-> "cdn/2000.zip", etag |-> None, file_name |-> "2000.zip"]

\* The status of <url>.hash.json: 2000 has no hash file.
HashProbeStatus(url) == IF url = "cdn/1000.zip" THEN 200 ELSE 404

\* hash_download_url on a url whose requests succeed.
hash_download_url(r, url) ==
    IF HashProbeStatus(url) \in {404, 400, 403}
    THEN [algorithm |-> "SHA-256", value |-> <<"sha256", url>>]
    ELSE [algorithm |-> "SHA-512", value |-> <<"published", url>>]

----------------------------------------------------------------------------
(* Initial stores: what earlier runs against an earlier catalogue left *)

CachedPlugin(xml_id) == [xml_id |-> xml_id, numeric_id |-> NumericId(xml_id)]

CachedPluginVersion(entry, xml_id) ==
    [version |-> entry.version, update_id |-> entry.id, channel |-> entry.channel,
     plugin_xml_id |-> xml_id]

\* An update row an earlier run resolved against an older artifact.
OldUpdateRow(id) ==
    [stale |-> FALSE, etag |-> "etag-old", file_name |-> "old.zip",
     download_url |-> "cdn/old.zip", hash_algorithm |-> "SHA-256",
     hash |-> <<"sha256", "cdn/old.zip">>]

\* An update row as sync_update_meta leaves it for the current catalogue.
CurrentUpdateRow(r, id) ==
    LET info == resolve_update_download_info(r, id)
        h == hash_download_url(r, info.url)
    IN [stale |-> FALSE, etag |-> info.etag, file_name |-> info.file_name,
        download_url |-> info.url, hash_algorithm |-> h.algorithm, hash |-> h.value]

UpdateRow(r, kind, id) ==
    CASE kind = "unresolved" -> [NewUpdateRow EXCEPT !.stale = FALSE]
      [] kind = "old" -> OldUpdateRow(id)
      [] OTHER -> CurrentUpdateRow(r, id)

\* The first run starts from rows resolved against older artifacts; a run
\* inserts unresolved rows and leaves current ones for the next run.
RowKinds == {"old"}

\* Plugins upstream has listed since before the first run: never new to the store.
LongKnown == {"p2"}

\* The cached version lists a plugin may start with.
CachedLists(xml_id) ==
    IF xml_id = "p1"
    THEN SeqsOver({RepoUpdateVersion(1000, "1.0")}, MaxVersions)
    ELSE {l \in SeqsOver({RepoUpdateVersion(1000, "2.0")}, MaxVersions) : Len(l) = 1}

InitStore(r, local, cached, kind) ==
    LET rows == {CachedPluginVersion(cached[x][i], x) :
                    <<x, i>> \in {<<y, j>> \in local \X (1..MaxVersions) :
                                    j \in DOMAIN cached[y]}}
        ids == {v.update_id : v \in rows}
    IN [plugins |-> {CachedPlugin(x) : x \in local},
        versions |-> rows,
        updates |-> [u \in ids |-> UpdateRow(r, kind, u)],
        update_dependencies |->
            {[update_id |-> u, dependency_xml_id |-> "d0", optional |-> FALSE] :
                u \in {w \in ids : kind # "unresolved"}}]

----------------------------------------------------------------------------
(* Tasks: what TaskAttachment::dispatch hands to the tracker *)

\* The dispatch tree names a task by its kind, its plugin, the seed task its
\* sync_plugin descends from, and the index of its version in the upstream list.
Tid(kind, xml_id, origin, idx) ==
    [kind |-> kind, plugin |-> xml_id, origin |-> origin, idx |-> idx]

NoRow == [stale |-> FALSE, etag |-> None, file_name |-> None, download_url |-> None,
          hash_algorithm |-> None, hash |-> None]
NoInfo == [url |-> None, etag |-> None, file_name |-> None]

\* The state of a task: its position, its outcome as guard_future reports it,
\* and the locals of the async fn it runs.
Task(pc) ==
    [pc |-> pc, outcome |-> None,
     seen |-> {},                       \* dispatch plugin sync: rows the stream yielded
     repo_versions |-> <<>>,            \* sync_plugin
     cached_versions |-> <<>>,          \* sync_plugin
     i |-> 1,                           \* sync_plugin: position in either loop
     update_id |-> 0,                   \* sync_update_dependency_meta, sync_update_meta
     work |-> <<>>,                     \* sync_update_dependency_meta: rows still to upsert
     download_info |-> NoInfo,          \* sync_update_meta
     cached_update |-> NoRow,           \* sync_update_meta
     hash_info |-> None]                \* sync_update_meta

NoTasks == [id \in {} |-> Task("done")]

KnownSeed == Tid("dispatch plugin sync", None, None, 0)
NewSeed == Tid("sync all new plugins", None, None, 0)

Succeeded(t) == [t EXCEPT !.pc = "done", !.outcome = "Succeeded"]
Failed(t) == [t EXCEPT !.pc = "done", !.outcome = "Failed"]

Dispatched == DOMAIN tasks
Running(id) == id \in Dispatched /\ tasks[id].pc # "done"

NoCalls == [not_stale_true |-> [u \in UpdateIds |-> 0],
            not_stale_false |-> [u \in UpdateIds |-> 0],
            resolve |-> [u \in UpdateIds |-> 0],
            hash |-> [u \in UpdateIds |-> 0]]

SetStore(st) ==
    /\ plugins' = st.plugins
    /\ versions' = st.versions
    /\ updates' = st.updates
    /\ update_dependencies' = st.update_dependencies

----------------------------------------------------------------------------
(* Statistics accountant: statistics.rs *)

\* The most reports one recv_many takes.
RecvLimit == 16

\* A report on the channel. The name is the task's id (the code's name string
\* is its kind and plugin); error is what a problem report is about.
TaskReport(name, data, error) == [name |-> name, data |-> data, error |-> error]

\* StatisticsCollector::new: the counters, the two lists and the channel. The
\* lists and the channel are kept as sets: no counter depends on their order.
StatisticsCollector ==
    [successful_tasks |-> 0, problems |-> {}, failures |-> {}, receiver |-> {}]

\* guard_future that reports a finished task only when it succeeded.
guard_future_ok_only(id) ==
    IF tasks'[id].outcome # "Succeeded" THEN statistics
    ELSE [statistics EXCEPT !.receiver = @ \cup {TaskReport(id, "Succeeded", None)}]

\* StatisticsSender::guard_future around a step of task id: when the step ends
\* the task, its result is sent as Succeeded or Failed in the same poll.
guard_future(id) ==
    IF tasks'[id].outcome = None THEN statistics
    ELSE [statistics EXCEPT !.receiver = @ \cup {TaskReport(id, tasks'[id].outcome, None)}]

\* A send_problem that reports the task as failed.
send_problem_as_failure(name, error) ==
    [statistics EXCEPT !.receiver = @ \cup {TaskReport(name, "Failed", None)}]

\* StatisticsSender::send_problem.
send_problem(name, error) ==
    [statistics EXCEPT !.receiver = @ \cup {TaskReport(name, "EncounteredProblem", error)}]

\* StatisticsCollector::reset: the snapshot sync_plugin_metadata returns.
reset(collector) ==
    [successful_tasks |-> collector.successful_tasks,
     problems |-> collector.problems,
     failures |-> collector.failures]

\* One round of the loop of StatisticsCollector::run, polled by the driver's
\* select!: recv_many takes what the channel holds, RecvLimit reports at most.
StatisticsRun ==
    /\ driver.pc = "select"
    /\ statistics.receiver # {}
    /\ \E buffer \in SUBSET statistics.receiver :
        /\ Cardinality(buffer) = IF Cardinality(statistics.receiver) < RecvLimit
                                 THEN Cardinality(statistics.receiver) ELSE RecvLimit
        /\ statistics' =
             [statistics EXCEPT
                !.receiver = @ \ buffer,
                !.successful_tasks =
                    @ + Cardinality({r \in buffer : r.data = "Succeeded"}),
                !.failures = @ \cup {[task_name |-> r.name] :
                                        r \in {q \in buffer : q.data = "Failed"}},
                !.problems = @ \cup {[task_name |-> r.name, error |-> r.error] :
                                        r \in {q \in buffer : q.data = "EncounteredProblem"}}]
    /\ UNCHANGED <<storeVars, remote, driver, tasks, calls, prevStore, call, permitVars>>

----------------------------------------------------------------------------
(* Driver: MetadataProcessor::sync_plugin_metadata *)

\* The difference taken the other way round.
all_disappeared_swapped(local, remote_ids) == remote_ids \ local

\* purge_unknown_plugins: local.difference(remote).
all_disappeared(local, remote_ids) == local \ remote_ids

\* sync_new_plugins: remote.difference(local).
all_new(local, remote_ids) == remote_ids \ local

\* try_join! of known_plugin_xml_ids, fetch_all_xml_ids and mark_all_updates_stale;
\* no task exists yet, so the order of the three is not observable.
Prologue ==
    /\ driver.pc = "prologue"
    /\ SetStore(mark_all_updates_stale(Store))
    /\ driver' = [driver EXCEPT !.pc = "purge",
                                !.local = known_plugin_xml_ids(plugins),
                                !.remote = fetch_all_xml_ids(remote),
                                !.disappeared =
                                    all_disappeared(known_plugin_xml_ids(plugins),
                                                    fetch_all_xml_ids(remote))]
    /\ UNCHANGED <<remote, tasks, calls, prevStore, call, statistics, permitVars>>

\* One iteration of the loop of purge_unknown_plugins.
PurgeUnknownPlugins ==
    /\ driver.pc = "purge"
    /\ \E disappeared \in driver.disappeared :
        /\ SetStore(delete_plugin_by_xml_id(Store, disappeared))
        /\ driver' = [driver EXCEPT !.disappeared = @ \ {disappeared}]
    /\ UNCHANGED <<remote, tasks, calls, prevStore, call, statistics, permitVars>>

\* A dispatch that does not wait for purge_unknown_plugins to return.
DispatchSeedsBeforePurge ==
    /\ driver.pc = "purge"
    /\ tasks' = (Tid("dispatch plugin sync", None, None, 0) :> Task("stream"))
                @@ (Tid("sync all new plugins", None, None, 0) :> Task("start"))
    /\ driver' = [driver EXCEPT !.pc = "select"]
    /\ statistics' = StatisticsCollector
    /\ UNCHANGED <<storeVars, remote, calls, prevStore, call, permitVars>>

\* The two seed tasks are dispatched and the tracker is closed; the driver
\* then sits in select!.
DispatchSeeds ==
    /\ driver.pc = "purge"
    /\ driver.disappeared = {}
    /\ tasks' = (Tid("dispatch plugin sync", None, None, 0) :> Task("stream"))
                @@ (Tid("sync all new plugins", None, None, 0) :> Task("start"))
    /\ driver' = [driver EXCEPT !.pc = "select"]
    /\ statistics' = StatisticsCollector
    /\ UNCHANGED <<storeVars, remote, calls, prevStore, call, permitVars>>

\* A wait that counts only the tasks spawned before close().
TrackerWaitSeedsOnly ==
    /\ driver.pc = "select"
    /\ \A id \in {KnownSeed, NewSeed} : tasks[id].pc = "done"
    /\ driver' = [driver EXCEPT !.pc = "returned", !.result = "Ok"]
    /\ UNCHANGED <<storeVars, remote, tasks, calls, prevStore, call, statistics, permitVars>>

\* tracker.wait() completes: the tracker is closed and holds no unfinished task.
TrackerWait ==
    /\ driver.pc = "select"
    /\ \A id \in Dispatched : tasks[id].pc = "done"
    /\ driver' = [driver EXCEPT !.pc = "returned", !.result = "Ok"]
    /\ UNCHANGED <<storeVars, remote, tasks, calls, prevStore, call, statistics, permitVars>>

\* The indexer is started again on the same database and the same catalogue.
NextRun ==
    /\ driver.pc = "returned"
    /\ driver.run < MaxRuns
    /\ driver' = [pc |-> "prologue", run |-> driver.run + 1, local |-> {},
                  remote |-> {}, disappeared |-> {}, result |-> None, error |-> None]
    /\ tasks' = NoTasks
    /\ calls' = NoCalls
    /\ prevStore' = Store
    /\ statistics' = StatisticsCollector
    /\ UNCHANGED <<storeVars, remote, call, permitVars>>

----------------------------------------------------------------------------
(* Seed tasks: the two async blocks of sync_plugin_metadata *)

\* plugins_stream.next() yields a row: the cursor walks the table as it is when
\* it steps, so a row inserted before the cursor ends is yielded too.
StreamPluginsNext ==
    /\ Running(KnownSeed)
    /\ \E plugin \in plugins :
        /\ plugin.xml_id \notin tasks[KnownSeed].seen
        /\ tasks' = (Tid("sync plugin", plugin.xml_id, "known", 0) :> Task("join"))
                    @@ [tasks EXCEPT ![KnownSeed].seen = @ \cup {plugin.xml_id}]
    /\ statistics' = guard_future(KnownSeed)
    /\ UNCHANGED <<storeVars, remote, driver, calls, prevStore, call, permitVars>>

\* The stream is exhausted.
StreamPluginsEnd ==
    /\ Running(KnownSeed)
    /\ known_plugin_xml_ids(plugins) \subseteq tasks[KnownSeed].seen
    /\ tasks' = [tasks EXCEPT ![KnownSeed] = Succeeded(@)]
    /\ statistics' = guard_future(KnownSeed)
    /\ UNCHANGED <<storeVars, remote, driver, calls, prevStore, call, permitVars>>

\* MetadataProcessor::sync_new_plugins: no await, every remote \ local id is
\* dispatched at once.
SyncNewPlugins ==
    /\ Running(NewSeed)
    /\ tasks' = [id \in {Tid("sync new plugin", new, "new", 0) :
                            new \in all_new(driver.local, driver.remote)} |-> Task("fetch")]
                @@ [tasks EXCEPT ![NewSeed] = Succeeded(@)]
    /\ statistics' = guard_future(NewSeed)
    /\ UNCHANGED <<storeVars, remote, driver, calls, prevStore, call, permitVars>>

----------------------------------------------------------------------------
(* meta/sync.rs *)

\* A sync_new_plugin that dispatches sync_plugin without the insert.
SyncNewPluginWithoutInsert(id) ==
    /\ Running(id)
    /\ id.kind = "sync new plugin"
    /\ tasks' = (Tid("sync plugin", id.plugin, "new", 0) :> Task("join"))
                @@ [tasks EXCEPT ![id] = Succeeded(@)]
    /\ statistics' = guard_future(id)
    /\ UNCHANGED <<storeVars, remote, driver, calls, prevStore, call, permitVars>>

\* sync_new_plugin: fetch_plugin_details, add_plugin, dispatch sync_plugin.
SyncNewPlugin(id) ==
    /\ Running(id)
    /\ id.kind = "sync new plugin"
    /\ LET details == fetch_plugin_details(remote, id.plugin)
           known == [xml_id |-> id.plugin, numeric_id |-> details.id]
           added == add_plugin(Store, known)
       IN /\ SetStore(added.store)
          /\ tasks' = IF added.ok
                      THEN (Tid("sync plugin", known.xml_id, "new", 0) :> Task("join"))
                           @@ [tasks EXCEPT ![id] = Succeeded(@)]
                      ELSE [tasks EXCEPT ![id] = Failed(@)]
    /\ statistics' = guard_future(id)
    /\ UNCHANGED <<remote, driver, calls, prevStore, call, permitVars>>

\* The version of the plugin the first loop of sync_plugin is at.
CurrentVersion(id) ==
    CachedPluginVersion(tasks[id].repo_versions[tasks[id].i], id.plugin)

\* sync_plugin leaves its first loop: on to the cached versions, if any.
ToRemoval(t) ==
    IF t.cached_versions = <<>> THEN Succeeded(t)
    ELSE [t EXCEPT !.pc = "remove", !.i = 1]

\* sync_plugin: try_join! of fetch_plugin_versions and get_versions_for_plugin.
SyncPluginJoin(id) ==
    /\ Running(id)
    /\ id.kind = "sync plugin"
    /\ tasks[id].pc = "join"
    /\ LET repo_versions ==
               fetch_plugin_versions(remote, CachedPlugin(id.plugin).numeric_id)
           rows == get_versions_for_plugin(Store, id.plugin)
       IN \E cached_versions \in {l \in SeqsOver(rows, Cardinality(rows)) :
                                    Range(l) = rows /\ Len(l) = Cardinality(rows)} :
            LET t == [tasks[id] EXCEPT !.repo_versions = repo_versions,
                                       !.cached_versions = cached_versions]
            IN tasks' = [tasks EXCEPT ![id] =
                            IF repo_versions = <<>> THEN ToRemoval(t)
                            ELSE [t EXCEPT !.pc = "add_update", !.i = 1]]
    /\ statistics' = guard_future(id)
    /\ UNCHANGED <<storeVars, remote, driver, calls, prevStore, call, permitVars>>

\* sync_plugin, first loop: add_update.
SyncPluginAddUpdate(id) ==
    /\ Running(id)
    /\ id.kind = "sync plugin"
    /\ tasks[id].pc = "add_update"
    /\ SetStore(add_update(Store, CurrentVersion(id).update_id))
    /\ tasks' = [tasks EXCEPT ![id].pc = "add_plugin_version"]
    /\ statistics' = guard_future(id)
    /\ UNCHANGED <<remote, driver, calls, prevStore, call, permitVars>>

\* sync_plugin, first loop: add_plugin_version, then the dispatch of
\* sync_update_dependency_meta.
SyncPluginAddVersion(id) ==
    /\ Running(id)
    /\ id.kind = "sync plugin"
    /\ tasks[id].pc = "add_plugin_version"
    /\ LET version == CurrentVersion(id)
           added == add_plugin_version(Store, version)
       IN /\ SetStore(added.store)
          /\ tasks' =
               IF added.ok
               THEN (Tid("sync update dependency meta", id.plugin, id.origin, tasks[id].i)
                        :> [Task("run") EXCEPT !.update_id = version.update_id])
                    @@ [tasks EXCEPT ![id].pc = "mark_update_not_stale"]
               ELSE [tasks EXCEPT ![id] = Failed(@)]
    /\ statistics' = guard_future(id)
    /\ UNCHANGED <<remote, driver, calls, prevStore, call, permitVars>>

\* sync_plugin, first loop: mark_update_not_stale and, when it returns true,
\* the dispatch of sync_update_meta.
SyncPluginMarkNotStale(id) ==
    /\ Running(id)
    /\ id.kind = "sync plugin"
    /\ tasks[id].pc = "mark_update_not_stale"
    /\ LET update_id == CurrentVersion(id).update_id
           marked == mark_update_not_stale(Store, update_id)
           t == tasks[id]
           next == IF t.i < Len(t.repo_versions)
                   THEN [t EXCEPT !.pc = "add_update", !.i = @ + 1]
                   ELSE ToRemoval(t)
       IN /\ SetStore(marked.store)
          /\ calls' = IF marked.ret
                      THEN [calls EXCEPT !.not_stale_true[update_id] = @ + 1]
                      ELSE [calls EXCEPT !.not_stale_false[update_id] = @ + 1]
          /\ tasks' =
               IF marked.ret
               THEN (Tid("sync update meta", id.plugin, id.origin, t.i)
                        :> [Task("join") EXCEPT !.update_id = update_id])
                    @@ [tasks EXCEPT ![id] = next]
               ELSE [tasks EXCEPT ![id] = next]
    /\ statistics' = guard_future(id)
    /\ UNCHANGED <<remote, driver, prevStore, call, permitVars>>

\* The test of the second loop of sync_plugin: no upstream version carries the
\* update id of the cached version.
NotListed(repo_versions, cached_version) ==
    ~ \E k \in DOMAIN repo_versions : repo_versions[k].id = cached_version.update_id

\* sync_plugin, second loop: one cached version.
SyncPluginRemove(id) ==
    /\ Running(id)
    /\ id.kind = "sync plugin"
    /\ tasks[id].pc = "remove"
    /\ LET t == tasks[id]
           cached_version == t.cached_versions[t.i]
       IN /\ SetStore(IF NotListed(t.repo_versions, cached_version)
                      THEN remove_plugin_version(Store, cached_version.plugin_xml_id,
                                                 cached_version.version)
                      ELSE Store)
          /\ tasks' = [tasks EXCEPT ![id] =
                          IF t.i < Len(t.cached_versions) THEN [t EXCEPT !.i = @ + 1]
                          ELSE Succeeded(t)]
    /\ statistics' = guard_future(id)
    /\ UNCHANGED <<remote, driver, calls, prevStore, call, permitVars>>

\* The upserts in the other order: the optional dependencies first.
DependencyRowsOptionalFirst(metadata, update_id) ==
    [k \in 1..Len(metadata.optional_dependencies) |->
        [update_id |-> update_id,
         dependency_xml_id |-> metadata.optional_dependencies[k],
         optional |-> TRUE]]
    \o [k \in 1..Len(metadata.dependencies) |->
        [update_id |-> update_id, dependency_xml_id |-> metadata.dependencies[k],
         optional |-> FALSE]]

\* The rows sync_update_dependency_meta upserts, in its order: the dependencies,
\* then the optional dependencies.
DependencyRows(metadata, update_id) ==
    [k \in 1..Len(metadata.dependencies) |->
        [update_id |-> update_id, dependency_xml_id |-> metadata.dependencies[k],
         optional |-> FALSE]]
    \o [k \in 1..Len(metadata.optional_dependencies) |->
        [update_id |-> update_id,
         dependency_xml_id |-> metadata.optional_dependencies[k],
         optional |-> TRUE]]

\* sync_update_dependency_meta: fetch_update_metadata, then one
\* add_update_dependency per step.
SyncUpdateDependencyMeta(id) ==
    /\ Running(id)
    /\ id.kind = "sync update dependency meta"
    /\ LET t == tasks[id]
           metadata == fetch_update_metadata(remote, CachedPlugin(id.plugin).numeric_id,
                                             t.update_id)
           work == DependencyRows(metadata, t.update_id)
       IN IF work = <<>>
          THEN /\ tasks' = [tasks EXCEPT ![id] = Succeeded(@)]
               /\ UNCHANGED storeVars
          ELSE LET added == add_update_dependency(Store, work[t.i])
               IN /\ SetStore(added.store)
                  /\ tasks' = [tasks EXCEPT ![id] =
                                  IF ~added.ok THEN Failed(t)
                                  ELSE IF t.i < Len(work) THEN [t EXCEPT !.i = @ + 1]
                                  ELSE Succeeded(t)]
    /\ statistics' = guard_future(id)
    /\ UNCHANGED <<remote, driver, calls, prevStore, call, permitVars>>

\* UpToDate with the test inverted.
UpToDateInverted(cached_update, download_info) ==
    cached_update.etag # download_info.etag

\* The test of sync_update_meta: cached etag == resolved etag, as Options.
UpToDate(cached_update, download_info) == cached_update.etag = download_info.etag

\* sync_update_meta: try_join! of resolve_update_download_info and get_update,
\* then the etag test.
SyncUpdateMetaJoin(id) ==
    /\ Running(id)
    /\ id.kind = "sync update meta"
    /\ tasks[id].pc = "join"
    /\ LET t == tasks[id]
           download_info == resolve_update_download_info(remote, t.update_id)
           got == get_update(Store, t.update_id)
           joined == [t EXCEPT !.download_info = download_info,
                               !.cached_update = got.update]
       IN tasks' = [tasks EXCEPT ![id] =
                       IF ~got.ok THEN Failed(t)
                       ELSE IF UpToDate(got.update, download_info) THEN Succeeded(joined)
                       ELSE [joined EXCEPT !.pc = "hash_download_url"]]
    /\ calls' = [calls EXCEPT !.resolve[tasks[id].update_id] = @ + 1]
    /\ statistics' = guard_future(id)
    /\ UNCHANGED <<storeVars, remote, driver, prevStore, call, permitVars>>

\* sync_update_meta: hash_download_url, then the write-back of the whole row.
SyncUpdateMetaWrite(id) ==
    /\ Running(id)
    /\ id.kind = "sync update meta"
    /\ tasks[id].pc = "hash_download_url"
    /\ LET t == tasks[id]
           hash_info == hash_download_url(remote, t.download_info.url)
           cached_update == [t.cached_update EXCEPT
                                !.etag = t.download_info.etag,
                                !.file_name = t.download_info.file_name,
                                !.download_url = t.download_info.url,
                                !.hash_algorithm = hash_info.algorithm,
                                !.hash = hash_info.value]
       IN /\ SetStore(change_update_info(Store, t.update_id, cached_update))
          /\ tasks' = [tasks EXCEPT ![id] = Succeeded([t EXCEPT !.hash_info = hash_info])]
    /\ calls' = [calls EXCEPT !.hash[tasks[id].update_id] = @ + 1]
    /\ statistics' = guard_future(id)
    /\ UNCHANGED <<remote, driver, prevStore, call, permitVars>>

----------------------------------------------------------------------------
(* The reconciliation engine *)

NoRequests == [c \in {} |-> None]

\* IndexerArgs as the command line gives them: the budgets and the two flags
\* of which the model follows --no-sync.
IndexerArgs(small, large, no_sync) ==
    [max_parallel_small_requests |-> small, max_parallel_large_requests |-> large,
     no_sync |-> no_sync]

\* No call has been made on the store or the client outside a run.
NoCall ==
    [op |-> None, arg |-> None, ok |-> TRUE, ret |-> FALSE,
     hash |-> [ok |-> FALSE, algorithm |-> None, value |-> None],
     before |-> [plugins |-> {}, versions |-> {}, updates |-> <<>>,
                 update_dependencies |-> {}]]

\* The indexer is started with the arguments a on a cache and a catalogue.
Start(a) ==
    /\ remote \in {r \in Remotes : WellFormedRemote(r)}
    /\ \E local \in {l \in SUBSET XmlIds : remote.xml_ids \cap LongKnown \subseteq l},
          kind \in RowKinds :
       \E cached \in [XmlIds -> UNION {CachedLists(x) : x \in XmlIds}] :
          /\ \A x \in XmlIds : cached[x] \in CachedLists(x)
          /\ LET st == InitStore(remote, local, cached, kind)
             IN /\ plugins = st.plugins
                /\ versions = st.versions
                /\ updates = st.updates
                /\ update_dependencies = st.update_dependencies
                /\ prevStore = st
    /\ driver = [pc |-> "prologue", run |-> 1, local |-> {}, remote |-> {},
                 disappeared |-> {}, result |-> None, error |-> None]
    /\ tasks = NoTasks
    /\ calls = NoCalls
    /\ statistics = StatisticsCollector
    /\ call = NoCall
    /\ args = a
    /\ small_request_semaphore = [permits |-> 1, waiters |-> <<>>]
    /\ large_request_semaphore = [permits |-> 1, waiters |-> <<>>]
    /\ requests = NoRequests

Init == Start(IndexerArgs(1, 1, FALSE))

TaskIds ==
    {Tid(kind, x, origin, idx) :
        kind \in {"sync new plugin", "sync plugin", "sync update dependency meta",
                  "sync update meta"},
        x \in XmlIds, origin \in {"known", "new"}, idx \in 0..MaxVersions}

Next ==
    \/ Prologue
    \/ PurgeUnknownPlugins
    \/ DispatchSeeds
    \/ TrackerWait
    \/ NextRun
    \/ StreamPluginsNext
    \/ StreamPluginsEnd
    \/ SyncNewPlugins
    \/ \E id \in TaskIds : SyncNewPlugin(id)
    \/ \E id \in TaskIds : SyncPluginJoin(id)
    \/ \E id \in TaskIds : SyncPluginAddUpdate(id)
    \/ \E id \in TaskIds : SyncPluginAddVersion(id)
    \/ \E id \in TaskIds : SyncPluginMarkNotStale(id)
    \/ \E id \in TaskIds : SyncPluginRemove(id)
    \/ \E id \in TaskIds : SyncUpdateDependencyMeta(id)
    \/ \E id \in TaskIds : SyncUpdateMetaJoin(id)
    \/ \E id \in TaskIds : SyncUpdateMetaWrite(id)

Spec == Init /\ [][Next]_vars

\* The indexer started with or without --no-sync. async_main hands the
\* arguments to MetadataProcessor::new, which reads the database path and the
\* two budgets, and then calls sync_plugin_metadata: no_sync is not read.
MainInit ==
    /\ \E no_sync \in BOOLEAN : Start(IndexerArgs(1, 1, no_sync))
    /\ remote.xml_ids = {"p1"}

MainSpec == MainInit /\ [][Next]_vars

----------------------------------------------------------------------------
(* The engine with the accountant polled and with failing calls *)

PrologueCalls == {"known_plugin_xml_ids", "fetch_all_xml_ids", "mark_all_updates_stale"}

\* A prologue whose error is logged and not returned.
PrologueErrorIgnored ==
    /\ driver.pc = "prologue"
    /\ \E failed \in PrologueCalls :
        /\ SetStore(Store)
        /\ driver' = [driver EXCEPT !.pc = "purge", !.error = failed,
                         !.local = known_plugin_xml_ids(plugins),
                         !.remote = fetch_all_xml_ids(remote),
                         !.disappeared =
                             all_disappeared(known_plugin_xml_ids(plugins),
                                             fetch_all_xml_ids(remote))]
    /\ UNCHANGED <<remote, tasks, calls, prevStore, call, statistics, permitVars>>

\* try_join! of the prologue returns the first error and drops the other two
\* futures: the UPDATE of mark_all_updates_stale has run by then, or has not.
PrologueError ==
    /\ driver.pc = "prologue"
    /\ \E failed \in PrologueCalls :
        /\ \E marked \in IF failed = "mark_all_updates_stale" THEN {FALSE} ELSE BOOLEAN :
             SetStore(IF marked THEN mark_all_updates_stale(Store) ELSE Store)
        /\ driver' = [driver EXCEPT !.pc = "returned", !.result = "Err", !.error = failed]
    /\ UNCHANGED <<remote, tasks, calls, prevStore, call, statistics, permitVars>>

\* purge_unknown_plugins: a DELETE fails and the ? operator returns the error.
PurgeError ==
    /\ driver.pc = "purge"
    /\ driver.disappeared # {}
    /\ driver' = [driver EXCEPT !.pc = "returned", !.result = "Err",
                                !.error = "delete_plugin_by_xml_id"]
    /\ UNCHANGED <<storeVars, remote, tasks, calls, prevStore, call, statistics, permitVars>>

TaskKinds == {"sync new plugin", "sync plugin", "sync update dependency meta",
              "sync update meta"}

\* A failing sync_update_meta that has stored the resolved etag already.
TaskErrorAfterEtagWrite(id) ==
    /\ Running(id)
    /\ id.kind \in TaskKinds
    /\ Cardinality({f \in Dispatched : tasks[f].outcome = "Failed"}) < MaxFaults
    /\ tasks' = [tasks EXCEPT ![id] = Failed(@)]
    /\ statistics' = guard_future(id)
    /\ updates' = IF id.kind = "sync update meta" /\ tasks[id].update_id \in DOMAIN updates
                  THEN [updates EXCEPT ![tasks[id].update_id].etag =
                          resolve_update_download_info(remote, tasks[id].update_id).etag]
                  ELSE updates
    /\ UNCHANGED <<plugins, versions, update_dependencies, remote, driver, calls,
                   prevStore, call, permitVars>>

\* The call a task of meta/sync.rs is at fails, in transport or in the store:
\* the ? operator ends the task with the error and the call changes nothing.
TaskError(id) ==
    /\ Running(id)
    /\ id.kind \in TaskKinds
    /\ Cardinality({f \in Dispatched : tasks[f].outcome = "Failed"}) < MaxFaults
    /\ tasks' = [tasks EXCEPT ![id] = Failed(@)]
    /\ statistics' = guard_future(id)
    /\ UNCHANGED <<storeVars, remote, driver, calls, prevStore, call, permitVars>>

\* An error of the stream that ends the seed task as a failed one.
StreamPluginsProblemFails ==
    /\ Running(KnownSeed)
    /\ \E plugin \in plugins :
        /\ plugin.xml_id \notin tasks[KnownSeed].seen
        /\ tasks' = [tasks EXCEPT ![KnownSeed] = Failed(@)]
        /\ statistics' = guard_future(KnownSeed)
    /\ UNCHANGED <<storeVars, remote, driver, calls, prevStore, call, permitVars>>

\* plugins_stream.next() yields an error for a row: send_problem and continue,
\* no sync_plugin is dispatched for the row.
StreamPluginsProblem ==
    /\ Running(KnownSeed)
    /\ \E plugin \in plugins :
        /\ plugin.xml_id \notin tasks[KnownSeed].seen
        /\ tasks' = [tasks EXCEPT ![KnownSeed].seen = @ \cup {plugin.xml_id}]
        /\ statistics' = send_problem(KnownSeed, plugin.xml_id)
    /\ UNCHANGED <<storeVars, remote, driver, calls, prevStore, call, permitVars>>

\* One run against a catalogue that lists p1 and no more p2, or that lists
\* both plugins, both known to the store, with no version of p1 left.
FaultInit ==
    /\ Init
    /\ \/ remote.xml_ids = {"p1"}
       \/ /\ remote.xml_ids = XmlIds
          /\ remote.versions["p1"] = <<>>
          /\ known_plugin_xml_ids(plugins) = XmlIds

FaultNext ==
    \/ Prologue
    \/ PrologueError
    \/ PurgeUnknownPlugins
    \/ PurgeError
    \/ DispatchSeeds
    \/ StatisticsRun
    \/ TrackerWait
    \/ StreamPluginsNext
    \/ StreamPluginsProblem
    \/ StreamPluginsEnd
    \/ SyncNewPlugins
    \/ \E id \in TaskIds : TaskError(id)
    \/ \E id \in TaskIds : SyncNewPlugin(id)
    \/ \E id \in TaskIds : SyncPluginJoin(id)
    \/ \E id \in TaskIds : SyncPluginAddUpdate(id)
    \/ \E id \in TaskIds : SyncPluginAddVersion(id)
    \/ \E id \in TaskIds : SyncPluginMarkNotStale(id)
    \/ \E id \in TaskIds : SyncPluginRemove(id)
    \/ \E id \in TaskIds : SyncUpdateDependencyMeta(id)
    \/ \E id \in TaskIds : SyncUpdateMetaJoin(id)
    \/ \E id \in TaskIds : SyncUpdateMetaWrite(id)

FaultSpec == FaultInit /\ [][FaultNext]_vars

----------------------------------------------------------------------------
(* Properties of the reconciliation engine *)

SyncPluginTasks(xml_id) ==
    {id \in Dispatched : id.kind = "sync plugin" /\ id.plugin = xml_id}

AllSucceeded == \A id \in Dispatched : tasks[id].outcome = "Succeeded"

\* The run is over and sync_plugin ran for the plugin and succeeded.
Synced(xml_id) ==
    /\ driver.pc = "returned"
    /\ SyncPluginTasks(xml_id) # {}
    /\ \A id \in SyncPluginTasks(xml_id) : tasks[id].outcome = "Succeeded"

Touched(u) == calls.not_stale_true[u] + calls.not_stale_false[u] > 0

\* C1: once any task of the run has called mark_update_not_stale(u), exactly one
\* of the calls made for u so far has returned true.
C1_StaleArbitration ==
    \A u \in UpdateIds : Touched(u) => calls.not_stale_true[u] = 1

\* C2: in a run, hash_download_url is executed at most once for an update id.
C2_OneHashPerUpdate ==
    \A u \in UpdateIds : calls.hash[u] <= 1

\* Two distinct plugins list update u under different version strings.
SharedUpdate(u) ==
    \E x, y \in remote.xml_ids :
        /\ x # y
        /\ \E i \in DOMAIN remote.versions[x], j \in DOMAIN remote.versions[y] :
            /\ remote.versions[x][i].id = u
            /\ remote.versions[y][j].id = u
            /\ remote.versions[x][i].version # remote.versions[y][j].version

Bound(xml_id, version, u) ==
    \E v \in versions :
        v.plugin_xml_id = xml_id /\ v.version = version /\ v.update_id = u

\* C3: when two plugins list the same update id under different version strings,
\* the run resolves the download info of that update exactly once, and both
\* version rows exist at its end, bound to the update.
C3_SharedUpdateResolvedOnce ==
    \A u \in UpdateIds :
        (driver.pc = "returned" /\ AllSucceeded /\ SharedUpdate(u))
        => /\ calls.resolve[u] = 1
           /\ \A x \in remote.xml_ids : \A i \in DOMAIN remote.versions[x] :
                remote.versions[x][i].id = u => Bound(x, remote.versions[x][i].version, u)

\* C7: after a run in which sync_plugin succeeded for a plugin, every version
\* upstream lists for it is a version row bound to the update id upstream gives.
C7_RoundTrip ==
    \A x \in XmlIds :
        Synced(x) => \A i \in DOMAIN remote.versions[x] :
                        Bound(x, remote.versions[x][i].version, remote.versions[x][i].id)

\* C8: after a run in which sync_plugin succeeded for a plugin, no version row
\* of the plugin carries a version string upstream does not list.
C8_UnlistedVersionsDeleted ==
    \A x \in XmlIds :
        Synced(x) => \A v \in versions :
                        v.plugin_xml_id = x
                        => \E i \in DOMAIN remote.versions[x] :
                              remote.versions[x][i].version = v.version

\* C9: a second run against the same catalogue, no task failing, leaves the
\* store as the run before it left it.
C9_Idempotence ==
    (driver.pc = "returned" /\ driver.run >= 2 /\ AllSucceeded) => Store = prevStore


\* C10: the step of sync_update_meta that finds the stored etag equal to the
\* etag upstream resolves ends the task: it succeeds at once, no hash request is
\* made and no table changes.
C10_EtagFastPath ==
    [][\A id \in Dispatched :
          (/\ id.kind = "sync update meta"
           /\ tasks[id].pc = "join"
           /\ id \in DOMAIN tasks'
           /\ tasks'[id] # tasks[id]
           /\ tasks[id].update_id \in DOMAIN updates
           /\ updates[tasks[id].update_id].etag
                = resolve_update_download_info(remote, tasks[id].update_id).etag)
          => /\ tasks'[id].pc = "done"
             /\ tasks'[id].outcome = "Succeeded"
             /\ tasks'[id].hash_info = None
             /\ calls'.hash = calls.hash
             /\ Store' = Store]_vars

\* A sync_update_meta task has ended on the fast path with an etag present on
\* both sides, and the run has hashed nothing for its update.
C10_Witness ==
    \E id \in Dispatched :
        /\ id.kind = "sync update meta"
        /\ tasks[id].pc = "done"
        /\ tasks[id].outcome = "Succeeded"
        /\ tasks[id].download_info.etag # None
        /\ tasks[id].cached_update.etag = tasks[id].download_info.etag
        /\ calls.hash[tasks[id].update_id] = 0

\* The run got past its prologue and its purge.
Purged == driver.pc \in {"select", "returned"} /\ driver.error = None

\* The plugins the store knew at the start of the run and upstream lists no more.
Disappeared ==
    known_plugin_xml_ids(prevStore.plugins) \ fetch_all_xml_ids(remote)

\* C11: once the purge of a run is through, a plugin that was known locally and
\* is absent from the remote listing has no plugin row and no version rows; a
\* plugin that was known locally and is listed is never deleted.
C11_PluginPurge ==
    /\ Purged => \A x \in Disappeared :
                    /\ x \notin known_plugin_xml_ids(plugins)
                    /\ get_versions_for_plugin(Store, x) = {}
    /\ \A x \in known_plugin_xml_ids(prevStore.plugins) \cap fetch_all_xml_ids(remote) :
          x \in known_plugin_xml_ids(plugins)

\* A run has ended in which one plugin with a version row was purged and
\* another, still listed, was kept.
C11_Witness ==
    /\ driver.pc = "returned"
    /\ \E x \in Disappeared : get_versions_for_plugin(prevStore, x) # {}
    /\ known_plugin_xml_ids(prevStore.plugins) \cap fetch_all_xml_ids(remote) # {}

\* The update ids the versions of plugin x were bound to at the start of the run.
UpdatesOf(x) == {v.update_id : v \in get_versions_for_plugin(prevStore, x)}

\* An update id that upstream lists for some plugin.
Listed(u) ==
    \E x \in remote.xml_ids : \E i \in DOMAIN remote.versions[x] :
        remote.versions[x][i].id = u

\* C12: after a run that purged a plugin, the update rows its versions were
\* bound to (and that no listed version uses) are gone, and so are the
\* dependency rows of those updates.
C12_CascadeToUpdates ==
    (driver.pc = "returned" /\ driver.error = None)
    => \A x \in Disappeared : \A u \in UpdatesOf(x) :
          ~Listed(u) => /\ u \notin DOMAIN updates
                        /\ \A d \in update_dependencies : d.update_id # u

\* A version row the store held at the start of the run, of a listed plugin,
\* whose version string upstream lists no more and whose update id no upstream
\* version uses.
Unlisted(v) ==
    /\ v \in prevStore.versions
    /\ v.plugin_xml_id \in remote.xml_ids
    /\ \A i \in DOMAIN remote.versions[v.plugin_xml_id] :
          remote.versions[v.plugin_xml_id][i].version # v.version
    /\ ~Listed(v.update_id)

DependenciesOf(st, u) == {d \in st.update_dependencies : d.update_id = u}

\* C13: after a run in which sync_plugin succeeded for a plugin, a version of it
\* that upstream lists no more (its update id used by no listed version) has no
\* row, its update row exists and is stale, and every dependency row of that
\* update is still there.
C13_UnlistedVersionKeepsUpdate ==
    \A v \in prevStore.versions :
        (Synced(v.plugin_xml_id) /\ Unlisted(v))
        => /\ ~ \E w \in versions : /\ w.plugin_xml_id = v.plugin_xml_id
                                     /\ w.version = v.version
           /\ v.update_id \in DOMAIN updates
           /\ updates[v.update_id].stale
           /\ DependenciesOf(prevStore, v.update_id) \subseteq update_dependencies

\* Scenario S3: the run is over, the plugin was synced, and an unlisted version
\* of it was bound to an update that has dependency rows.
C13_Witness ==
    \E v \in prevStore.versions :
        /\ Synced(v.plugin_xml_id)
        /\ Unlisted(v)
        /\ DependenciesOf(prevStore, v.update_id) # {}
        /\ remote.versions[v.plugin_xml_id] # <<>>

\* C19: every version row references an existing update row and an existing
\* plugin row, in every state; and a step that inserts or re-binds a version
\* row finds the update row it references already there.
C19_ReferentialIntegrity ==
    /\ [](\A v \in versions : /\ v.update_id \in DOMAIN updates
                              /\ v.plugin_xml_id \in known_plugin_xml_ids(plugins))
    /\ [][\A v \in versions' \ versions : v.update_id \in DOMAIN updates]_vars

\* A run purged a plugin with its versions and bound a version of a plugin new
\* to the store to an update row new to the store.
C19_Witness ==
    /\ \E x \in Disappeared : get_versions_for_plugin(prevStore, x) # {}
    /\ \E v \in versions : /\ v.update_id \notin DOMAIN prevStore.updates
                           /\ v.plugin_xml_id \notin known_plugin_xml_ids(prevStore.plugins)

\* C20: every update row is stale when the prologue is through; at the end of a
\* run in which every task succeeded an update row is non-stale exactly when
\* upstream lists its id for a plugin, and no update row has been dropped.
C20_StalenessProtocol ==
    /\ driver.pc = "purge" => \A u \in DOMAIN updates : updates[u].stale
    /\ (driver.pc = "returned" /\ driver.error = None /\ AllSucceeded)
       => /\ DOMAIN prevStore.updates \subseteq DOMAIN updates
          /\ \A u \in DOMAIN updates : ~updates[u].stale <=> Listed(u)

\* A run in which every task succeeded has ended with one update listed and
\* fresh and another, resolved by an earlier run, retained and stale.
C20_Witness ==
    /\ driver.pc = "returned"
    /\ AllSucceeded
    /\ \E u \in DOMAIN prevStore.updates : u \in DOMAIN updates /\ updates[u].stale
    /\ \E u \in DOMAIN updates : ~updates[u].stale /\ Listed(u)

----------------------------------------------------------------------------
(* Properties of the engine under failing calls, the accountant polled *)

\* C14: when a call of the prologue has failed, sync_plugin_metadata has
\* returned the error, no plugin and no version has been deleted and no task
\* has been dispatched.
C14_PrologueFatal ==
    driver.error \in PrologueCalls
    => /\ driver.pc = "returned"
       /\ driver.result = "Err"
       /\ plugins = prevStore.plugins
       /\ versions = prevStore.versions
       /\ Dispatched = {}

\* The prologue failed after its UPDATE had run, with a plugin to purge and a
\* new plugin to dispatch.
C14_Witness ==
    /\ driver.error \in PrologueCalls
    /\ Disappeared # {}
    /\ all_new(known_plugin_xml_ids(plugins), fetch_all_xml_ids(remote)) # {}
    /\ \E u \in DOMAIN updates : updates[u].stale /\ ~prevStore.updates[u].stale

FailedTasks == {id \in Dispatched : tasks[id].outcome = "Failed"}

\* C15: a task that ended with an error has exactly one Failed report under its
\* name, on the channel or in the accountant's failures, and no Succeeded one;
\* the step in which it fails leaves every other task as it is; and a run with
\* failed tasks returns Ok with every dispatched task ended.
C15_FailureIsolation ==
    /\ [](\A id \in FailedTasks :
            /\ (TaskReport(id, "Failed", None) \in statistics.receiver)
                 # ([task_name |-> id] \in statistics.failures)
            /\ TaskReport(id, "Succeeded", None) \notin statistics.receiver)
    /\ []((driver.pc = "returned" /\ FailedTasks # {})
            => /\ driver.result = "Ok"
               /\ \A id \in Dispatched : tasks[id].outcome # None)
    /\ [][\A id \in Dispatched :
            (id \in DOMAIN tasks' /\ tasks[id].outcome = None
                                  /\ tasks'[id].outcome = "Failed")
            => \A other \in Dispatched \ {id} :
                  other \in DOMAIN tasks' /\ tasks'[other] = tasks[other]]_vars

\* A run returned Ok with a failed task in the accountant's failures and a
\* sync_update_meta task that succeeded all the same.
C15_Witness ==
    /\ driver.pc = "returned"
    /\ driver.result = "Ok"
    /\ \E id \in FailedTasks : [task_name |-> id] \in statistics.failures
    /\ \E id \in Dispatched : /\ id.kind = "sync update meta"
                              /\ tasks[id].outcome = "Succeeded"

\* C16: the snapshot sync_plugin_metadata returns accounts for every dispatched
\* task: successes plus failures equal the number of tasks dispatched.
C16_AccountingCompleteness ==
    (driver.pc = "returned" /\ driver.result = "Ok")
    => reset(statistics).successful_tasks + Cardinality(reset(statistics).failures)
         = Cardinality(Dispatched)

\* C17: sync_plugin_metadata returns Ok only when every dispatched task has
\* ended; and a task enters the tracker either from the driver before close()
\* or in a step of a task that is itself still running.
C17_TrackerQuiescence ==
    /\ []((driver.pc = "returned" /\ driver.result = "Ok")
            => \A id \in Dispatched : tasks[id].pc = "done")
    /\ [][\A id \in DOMAIN tasks' \ DOMAIN tasks :
            \/ driver.pc = "purge"
            \/ \E parent \in Dispatched : /\ tasks[parent].pc # "done"
                                          /\ tasks'[parent] # tasks[parent]]_vars

\* The run returned after a task four levels down the dispatch tree, dispatched
\* after close(), had ended: seed, sync_new_plugin, sync_plugin, sync_update_meta.
C17_Witness ==
    /\ driver.pc = "returned"
    /\ driver.result = "Ok"
    /\ \E id \in Dispatched : /\ id.kind = "sync update meta"
                              /\ id.origin = "new"
                              /\ tasks[id].pc = "done"

\* C18: an update row with a hash has a hash algorithm.
C18_HashHasAlgorithm ==
    \A u \in DOMAIN updates :
        updates[u].hash # None => updates[u].hash_algorithm # None

\* A row inserted in this run has been given its hash by one sync_update_meta
\* while another sync_update_meta of the run failed.
C18_Witness ==
    /\ \E u \in DOMAIN updates \ DOMAIN prevStore.updates : updates[u].hash # None
    /\ \E id \in FailedTasks : id.kind = "sync update meta"

----------------------------------------------------------------------------
(* Repo client: the two semaphores of api/mod.rs *)

\* JetbrainsRepoApi::new: a semaphore with the budget as its permits.
Semaphore(budget) == [permits |-> budget, waiters |-> <<>>]

\* Acquire that never waits: the permit count is not consulted.
AcquireUnchecked(sem, id) ==
    [sem |-> [sem EXCEPT !.permits = @ - 1], acquired |-> TRUE]

\* Semaphore::acquire_owned: a permit at once if one is free, else the caller
\* joins the queue.
Acquire(sem, id) ==
    IF sem.permits > 0
    THEN [sem |-> [sem EXCEPT !.permits = @ - 1], acquired |-> TRUE]
    ELSE [sem |-> [sem EXCEPT !.waiters = Append(@, id)], acquired |-> FALSE]

\* Release that forgets the queue: the permit is counted free, nobody is woken.
ReleaseNoWake(sem) ==
    [sem |-> [sem EXCEPT !.permits = @ + 1], woken |-> {}]

\* Dropping an OwnedSemaphorePermit: the permit goes to the longest waiter, if
\* any, else back to the semaphore. woken holds the waiter served.
Release(sem) ==
    IF sem.waiters # <<>>
    THEN [sem |-> [sem EXCEPT !.waiters = Tail(@)], woken |-> {Head(sem.waiters)}]
    ELSE [sem |-> [sem EXCEPT !.permits = @ + 1], woken |-> {}]

\* The repo client operation a task is in: its name, its position, and the
\* permits its locals own.
Request(op, pc, permit) == [op |-> op, pc |-> pc, permit |-> permit]
Idle == Request(None, "idle", {})

\* The operation a task calls at its position.
OpOf(id) ==
    CASE id.kind = "sync new plugin" -> "fetch_plugin_details"
      [] id.kind = "sync plugin" -> "fetch_plugin_versions"
      [] id.kind = "sync update dependency meta" -> "fetch_update_metadata"
      [] id.kind = "sync update meta" /\ tasks[id].pc = "join"
            -> "resolve_update_download_info"
      [] OTHER -> "hash_download_url"

\* The requests after a permit of the small semaphore is dropped: the woken
\* waiter owns it and sends its request.
WakeSmall(reqs, woken) ==
    [id \in DOMAIN reqs |->
        IF id \in woken
        THEN [reqs[id] EXCEPT !.pc = "send", !.permit = @ \cup {"small"}]
        ELSE reqs[id]]

WakeLarge(reqs, woken) ==
    [id \in DOMAIN reqs |->
        IF id \in woken
        THEN [reqs[id] EXCEPT !.pc = "download", !.permit = @ \cup {"large"}]
        ELSE reqs[id]]

\* acquire_small_permit, the first await of every operation.
AcquireSmallPermit(id) ==
    /\ Running(id)
    /\ requests[id].pc = "idle"
    /\ LET got == Acquire(small_request_semaphore, id)
       IN /\ small_request_semaphore' = got.sem
          /\ requests' = [requests EXCEPT ![id] =
                IF got.acquired THEN Request(OpOf(id), "send", {"small"})
                ELSE Request(OpOf(id), "wait_small", {})]
    /\ UNCHANGED <<storeVars, engineVars, args, large_request_semaphore>>

\* The four fetch operations and resolve_update_download_info: the answer is
\* in, or the request failed; the permit is dropped on either path. The task
\* goes on to its store calls, which the permits do not see.
SmallResponse(id) ==
    /\ Running(id)
    /\ requests[id].pc = "send"
    /\ requests[id].op # "hash_download_url"
    /\ LET freed == Release(small_request_semaphore)
           rest == WakeSmall([requests EXCEPT ![id] = Idle], freed.woken)
       IN /\ small_request_semaphore' = freed.sem
          /\ requests' = rest
          /\ \E ok \in BOOLEAN, up_to_date \in BOOLEAN :
               tasks' = [tasks EXCEPT ![id] =
                   IF ~ok THEN Failed(@)
                   ELSE IF requests[id].op = "resolve_update_download_info" /\ ~up_to_date
                   THEN [@ EXCEPT !.pc = "hash_download_url"]
                   ELSE Succeeded(@)]
    /\ statistics' = guard_future(id)
    /\ UNCHANGED <<storeVars, remote, driver, calls, prevStore, call, args,
                   large_request_semaphore>>

HashProbeStatuses == {200, 400, 403, 404, 500}

\* The fallback branch keeping the probe's permit.
FallbackKeepingPermit(id) ==
    /\ small_request_semaphore' = small_request_semaphore
    /\ requests' = [requests EXCEPT ![id].pc = "acquire_large"]
    /\ UNCHANGED tasks

\* hash_download_url, status 404, 400 or 403: drop(permit), then on to the
\* large semaphore.
Fallback(id) ==
    LET freed == Release(small_request_semaphore)
    IN /\ small_request_semaphore' = freed.sem
       /\ requests' = WakeSmall([requests EXCEPT ![id].pc = "acquire_large",
                                                 ![id].permit = @ \ {"small"}],
                                freed.woken)
       /\ UNCHANGED tasks

\* An error path that returns without dropping the probe's permit.
PublishedLeakingOnError(id, decoded) ==
    LET freed == IF decoded THEN Release(small_request_semaphore)
                 ELSE [sem |-> small_request_semaphore, woken |-> {}]
    IN /\ small_request_semaphore' = freed.sem
       /\ requests' = WakeSmall([requests EXCEPT ![id] = Idle], freed.woken)
       /\ tasks' = [tasks EXCEPT ![id] =
                       IF decoded THEN Succeeded([@ EXCEPT !.hash_info = "published"])
                       ELSE Failed(@)]

\* hash_download_url, any other status: the body is read, the permit dropped,
\* and the body decoded.
Published(id, decoded) ==
    LET freed == Release(small_request_semaphore)
    IN /\ small_request_semaphore' = freed.sem
       /\ requests' = WakeSmall([requests EXCEPT ![id] = Idle], freed.woken)
       /\ tasks' = [tasks EXCEPT ![id] =
                       IF decoded THEN Succeeded([@ EXCEPT !.hash_info = "published"])
                       ELSE Failed(@)]

\* hash_download_url: the .hash.json probe is answered, or fails in transport.
HashProbeResponse(id) ==
    /\ Running(id)
    /\ requests[id].pc = "send"
    /\ requests[id].op = "hash_download_url"
    /\ \E sent \in BOOLEAN, status \in HashProbeStatuses, decoded \in BOOLEAN :
         IF ~sent THEN Published(id, FALSE)
         ELSE IF status \in {404, 400, 403} THEN Fallback(id)
         ELSE Published(id, decoded)
    /\ statistics' = guard_future(id)
    /\ UNCHANGED <<storeVars, remote, driver, calls, prevStore, call, args,
                   large_request_semaphore>>

\* hash_download_url: large_request_semaphore.acquire_owned().
AcquireLargePermit(id) ==
    /\ Running(id)
    /\ requests[id].pc = "acquire_large"
    /\ LET got == Acquire(large_request_semaphore, id)
       IN /\ large_request_semaphore' = got.sem
          /\ requests' = [requests EXCEPT ![id] =
                IF got.acquired
                THEN [@ EXCEPT !.pc = "download", !.permit = @ \cup {"large"}]
                ELSE [@ EXCEPT !.pc = "wait_large"]]
    /\ UNCHANGED <<storeVars, engineVars, args, small_request_semaphore>>

\* hash_download_url: the streamed download ends, in the digest or in an error;
\* every permit the operation still owns is dropped.
DownloadDone(id) ==
    /\ Running(id)
    /\ requests[id].pc = "download"
    /\ LET freed == Release(large_request_semaphore)
           kept == IF "small" \in requests[id].permit
                   THEN Release(small_request_semaphore)
                   ELSE [sem |-> small_request_semaphore, woken |-> {}]
       IN /\ large_request_semaphore' = freed.sem
          /\ small_request_semaphore' = kept.sem
          /\ requests' = WakeSmall(WakeLarge([requests EXCEPT ![id] = Idle],
                                             freed.woken), kept.woken)
    /\ \E ok \in BOOLEAN :
         tasks' = [tasks EXCEPT ![id] =
                      IF ok THEN Succeeded([@ EXCEPT !.hash_info = "SHA-256"])
                      ELSE Failed(@)]
    /\ statistics' = guard_future(id)
    /\ UNCHANGED <<storeVars, remote, driver, calls, prevStore, call, args>>

----------------------------------------------------------------------------
(* The repo client under concurrent tasks *)

Callers == 1..NumCallers

CallerKinds == <<"sync new plugin", "sync plugin", "sync update dependency meta",
                "sync update meta">>

CallerId(kind, c) == Tid(kind, "p1", "known", c)

CallerIds == {CallerId(CallerKinds[k], c) : k \in DOMAIN CallerKinds, c \in Callers}

\* The tasks being interchangeable, their kinds are listed in one order only.
KindChoices ==
    {kind \in [Callers -> DOMAIN CallerKinds] :
        \A c, d \in Callers : c < d => kind[c] <= kind[d]}

\* The position a task of the kind starts at.
StartOf(kind) ==
    CASE kind = "sync new plugin" -> Task("fetch")
      [] kind = "sync update dependency meta" -> Task("run")
      [] OTHER -> Task("join")

\* The tracker holds NumCallers tasks of any kinds, none started; the seeds are
\* dispatched, the tracker is closed and the driver sits in select!.
PermitInit ==
    /\ plugins = {} /\ versions = {} /\ updates = <<>> /\ update_dependencies = {}
    /\ remote = [xml_ids |-> {}, versions |-> [x \in XmlIds |-> <<>>]]
    /\ prevStore = [plugins |-> {}, versions |-> {}, updates |-> <<>>,
                    update_dependencies |-> {}]
    /\ calls = NoCalls
    /\ statistics = StatisticsCollector
    /\ call = NoCall
    /\ driver = [pc |-> "select", run |-> 1, local |-> {}, remote |-> {},
                 disappeared |-> {}, result |-> None, error |-> None]
    /\ \E small \in 1..MaxBudget, large \in 1..MaxBudget :
        /\ args = IndexerArgs(small, large, FALSE)
        /\ small_request_semaphore = Semaphore(small)
        /\ large_request_semaphore = Semaphore(large)
    /\ \E kind \in KindChoices :
        LET ids == {CallerId(CallerKinds[kind[c]], c) : c \in Callers}
        IN /\ tasks = [id \in ids |-> StartOf(id.kind)]
           /\ requests = [id \in ids |-> Idle]

PermitNext ==
    \/ \E id \in CallerIds : AcquireSmallPermit(id)
    \/ \E id \in CallerIds : SmallResponse(id)
    \/ \E id \in CallerIds : HashProbeResponse(id)
    \/ \E id \in CallerIds : AcquireLargePermit(id)
    \/ \E id \in CallerIds : DownloadDone(id)
    \/ TrackerWait

\* A step of the c-th task, whatever its kind.
CallerStep(c) ==
    \E id \in CallerIds :
        /\ id.idx = c
        /\ \/ AcquireSmallPermit(id)
           \/ SmallResponse(id)
           \/ HashProbeResponse(id)
           \/ AcquireLargePermit(id)
           \/ DownloadDone(id)

PermitSpec == PermitInit /\ [][PermitNext]_vars

\* The runtime polls every task that can make progress, every request is
\* answered, and the driver's select! is polled.
FairPermitSpec ==
    /\ PermitSpec
    /\ \A c \in Callers : WF_vars(CallerStep(c))
    /\ WF_vars(TrackerWait)

----------------------------------------------------------------------------
(* Properties of the repo client *)

InFlightSmall == {id \in DOMAIN requests : requests[id].pc = "send"}
InFlightLarge == {id \in DOMAIN requests : requests[id].pc = "download"}
WaitingSmall == {id \in DOMAIN requests : requests[id].pc = "wait_small"}
WaitingLarge == {id \in DOMAIN requests : requests[id].pc \in {"acquire_large", "wait_large"}}
HoldingSmall == {id \in DOMAIN requests : "small" \in requests[id].permit}

\* C4: no task owns a small and a large permit at once, and a task that is about
\* to wait or waits for the large permit owns no small permit.
C4_PermitExclusion ==
    \A id \in DOMAIN requests :
        /\ ~({"small", "large"} \subseteq requests[id].permit)
        /\ id \in WaitingLarge => "small" \notin requests[id].permit

\* A task streams the fallback download on a large permit alone while another
\* task's metadata request is in flight on the only small permit.
C4_Witness ==
    /\ args.max_parallel_small_requests = 1
    /\ \E id \in InFlightLarge : requests[id].permit = {"large"}
    /\ InFlightSmall # {}

\* C5: the requests in flight on the small budget never outnumber
\* max_parallel_small_requests, the streaming downloads never outnumber
\* max_parallel_large_requests.
C5_PermitBounds ==
    /\ Cardinality(InFlightSmall) <= args.max_parallel_small_requests
    /\ Cardinality(InFlightLarge) <= args.max_parallel_large_requests

\* Both budgets are used up at once and a task queues for each of them.
C5_Witness ==
    /\ Cardinality(InFlightSmall) = args.max_parallel_small_requests
    /\ Cardinality(InFlightLarge) = args.max_parallel_large_requests
    /\ small_request_semaphore.waiters # <<>> \/ large_request_semaphore.waiters # <<>>

\* Every small permit is owned by a task that waits on the large semaphore.
SmallHeldByLargeWaiters ==
    /\ Cardinality(HoldingSmall) = args.max_parallel_small_requests
    /\ HoldingSmall \subseteq WaitingLarge

\* C6: under fair scheduling no state has all small permits owned by tasks that
\* wait on the large semaphore, every task queued for a small or a large permit
\* gets it, every task completes and sync_plugin_metadata returns.
C6_DeadlockFreedom ==
    /\ [] ~SmallHeldByLargeWaiters
    /\ \A c \in Callers : (\E id \in WaitingSmall : id.idx = c)
                            ~> (\E id \in InFlightSmall : id.idx = c)
    /\ \A c \in Callers : (\E id \in WaitingLarge : id.idx = c)
                            ~> (\E id \in InFlightLarge : id.idx = c)
    /\ <>(driver.pc = "returned" /\ \A id \in Dispatched : tasks[id].pc = "done")

\* A burst of fallbacks: one task downloads, another queues for the large
\* permit, and the small budget is used up by a third.
C6_Witness ==
    /\ InFlightLarge # {}
    /\ large_request_semaphore.waiters # <<>>
    /\ small_request_semaphore.permits = 0
    /\ InFlightSmall # {}

----------------------------------------------------------------------------
(* The store and the repo client, called one statement at a time *)
(* CallSpec applies the statements of db/mod.rs and hash_download_url to    *)
(* drawn arguments on drawn stores and keeps the last call with its answer.  *)

\* What the two requests of hash_download_url may meet: whether the probe of
\* <url>.hash.json got an answer, its status, whether its body is the hash
\* document with a base64 hash, and whether the download of the file succeeds.
HashProbes ==
    [sent : BOOLEAN, status : HashProbeStatuses, decodes : BOOLEAN, download : BOOLEAN]

HashError == [ok |-> FALSE, algorithm |-> None, value |-> None]

\* hash_download_url against the answers of probe. Only send() can fail
\* the first request: its status is matched against 404, 400 and 403 and is
\* not looked at again.
hash_download_url_outcome(probe) ==
    IF ~probe.sent THEN HashError
    ELSE IF probe.status \in {404, 400, 403}
    THEN IF probe.download
         THEN [ok |-> TRUE, algorithm |-> "SHA-256", value |-> "sha256 of the file"]
         ELSE HashError
    ELSE IF probe.decodes
         THEN [ok |-> TRUE, algorithm |-> "SHA-512", value |-> "published hash"]
         ELSE HashError

\* The arguments the statements are called with.
CallVersions == {CachedPluginVersion(RepoUpdateVersion(u, "1.0"), "p1") : u \in UpdateIds}
CallDependencies ==
    {[update_id |-> 1000, dependency_xml_id |-> "d1", optional |-> o] : o \in BOOLEAN}

\* The record of a call: its statement and argument, whether it returned Ok,
\* the bool or the hash it returned, and the store it was made on.
Called(op, arg, ok, ret, hash) ==
    [op |-> op, arg |-> arg, ok |-> ok, ret |-> ret, hash |-> hash, before |-> Store]

CallUnchanged ==
    UNCHANGED <<remote, driver, tasks, calls, prevStore, statistics, permitVars>>

CallAddPlugin(xml_id) ==
    LET r == add_plugin(Store, CachedPlugin(xml_id))
    IN /\ SetStore(r.store)
       /\ call' = Called("add_plugin", xml_id, r.ok, FALSE, HashError)
       /\ CallUnchanged

CallDeletePluginByXmlId(xml_id) ==
    /\ SetStore(delete_plugin_by_xml_id(Store, xml_id))
    /\ call' = Called("delete_plugin_by_xml_id", xml_id, TRUE, FALSE, HashError)
    /\ CallUnchanged

CallAddUpdate(update_id) ==
    /\ SetStore(add_update(Store, update_id))
    /\ call' = Called("add_update", update_id, TRUE, FALSE, HashError)
    /\ CallUnchanged

CallAddPluginVersion(version) ==
    LET r == add_plugin_version(Store, version)
    IN /\ SetStore(r.store)
       /\ call' = Called("add_plugin_version", version, r.ok, FALSE, HashError)
       /\ CallUnchanged

CallRemovePluginVersion(version) ==
    /\ SetStore(remove_plugin_version(Store, version.plugin_xml_id, version.version))
    /\ call' = Called("remove_plugin_version", version, TRUE, FALSE, HashError)
    /\ CallUnchanged

CallAddUpdateDependency(dependency) ==
    LET r == add_update_dependency(Store, dependency)
    IN /\ SetStore(r.store)
       /\ call' = Called("add_update_dependency", dependency, r.ok, FALSE, HashError)
       /\ CallUnchanged

CallMarkAllUpdatesStale ==
    /\ SetStore(mark_all_updates_stale(Store))
    /\ call' = Called("mark_all_updates_stale", None, TRUE, FALSE, HashError)
    /\ CallUnchanged

CallMarkUpdateNotStale(update_id) ==
    LET r == mark_update_not_stale(Store, update_id)
    IN /\ SetStore(r.store)
       /\ call' = Called("mark_update_not_stale", update_id, TRUE, r.ret, HashError)
       /\ CallUnchanged

CallHashDownloadUrl(probe) ==
    LET r == hash_download_url_outcome(probe)
    IN /\ call' = Called("hash_download_url", probe, r.ok, FALSE, r)
       /\ UNCHANGED storeVars
       /\ CallUnchanged

\* An empty cache, or the cache of p1 at version 1.0 with its resolved update.
CallInit ==
    /\ remote = [xml_ids |-> {}, versions |-> [x \in XmlIds |-> <<>>]]
    /\ \E st \in {InitStore(remote, {}, [x \in XmlIds |-> <<>>], "old"),
                  InitStore(remote, {"p1"},
                            [x \in XmlIds |-> <<RepoUpdateVersion(1000, "1.0")>>], "old")} :
        /\ plugins = st.plugins
        /\ versions = st.versions
        /\ updates = st.updates
        /\ update_dependencies = st.update_dependencies
        /\ prevStore = st
    /\ driver = [pc |-> "returned", run |-> MaxRuns, local |-> {}, remote |-> {},
                 disappeared |-> {}, result |-> "Ok", error |-> None]
    /\ tasks = NoTasks
    /\ calls = NoCalls
    /\ statistics = StatisticsCollector
    /\ call = NoCall
    /\ args = IndexerArgs(1, 1, FALSE)
    /\ small_request_semaphore = [permits |-> 1, waiters |-> <<>>]
    /\ large_request_semaphore = [permits |-> 1, waiters |-> <<>>]
    /\ requests = NoRequests

CallNext ==
    \/ \E xml_id \in XmlIds : CallAddPlugin(xml_id)
    \/ \E xml_id \in XmlIds : CallDeletePluginByXmlId(xml_id)
    \/ \E update_id \in UpdateIds : CallAddUpdate(update_id)
    \/ \E version \in CallVersions : CallAddPluginVersion(version)
    \/ \E version \in CallVersions : CallRemovePluginVersion(version)
    \/ \E dependency \in CallDependencies : CallAddUpdateDependency(dependency)
    \/ CallMarkAllUpdatesStale
    \/ \E update_id \in UpdateIds : CallMarkUpdateNotStale(update_id)
    \/ \E probe \in HashProbes : CallHashDownloadUrl(probe)

CallSpec == CallInit /\ [][CallNext]_vars

----------------------------------------------------------------------------
(* Claims on the store's statements and on hash_download_url, under CallSpec *)

\* C21: mark_update_not_stale answers true exactly when the row existed and was
\* stale before the call, and false for a row that is not stale or is missing.
C21_CompareAndSet ==
    call.op = "mark_update_not_stale" =>
        call.ret = (/\ call.arg \in DOMAIN call.before.updates
                    /\ call.before.updates[call.arg].stale)

\* The rows of st that have the primary key of the row the call would insert.
SameKey(st, op, arg) ==
    CASE op = "add_plugin" -> {p \in st.plugins : p.xml_id = arg}
      [] op = "add_update" -> {u \in DOMAIN st.updates : u = arg}
      [] op = "add_plugin_version" ->
            {v \in st.versions : v.version = arg.version
                                 /\ v.plugin_xml_id = arg.plugin_xml_id}
      [] op = "add_update_dependency" ->
            {d \in st.update_dependencies :
                d.update_id = arg.update_id
                /\ d.dependency_xml_id = arg.dependency_xml_id}
      [] OTHER -> {}

\* C22: a write whose primary key is already in its table is never an error:
\* add_plugin and add_update succeed and leave the store as it was,
\* add_plugin_version and add_update_dependency succeed and the row of the key
\* is the row given.
C22_NoUniquenessError ==
    SameKey(call.before, call.op, call.arg) # {} =>
        /\ call.op \in {"add_plugin", "add_update"} => call.ok /\ Store = call.before
        /\ call.op = "add_plugin_version" /\ call.arg.update_id \in DOMAIN call.before.updates
            => call.ok /\ SameKey(Store, call.op, call.arg) = {call.arg}
        /\ call.op = "add_update_dependency"
            => call.ok /\ SameKey(Store, call.op, call.arg) = {call.arg}

\* C23: hash_download_url on an answered probe: 400, 403 and 404 lead to the
\* SHA-256 of the downloaded file, a success status to the published hash, and
\* any other status is an error whatever the body holds.
C23_HashStatusHandling ==
    call.op = "hash_download_url" /\ call.arg.sent =>
        /\ call.arg.status \in {400, 403, 404} /\ call.arg.download
            => call.ok /\ call.hash.algorithm = "SHA-256"
        /\ call.arg.status = 200 /\ call.arg.decodes
            => call.ok /\ call.hash.value = "published hash"
        /\ call.arg.status \notin {200, 400, 403, 404} => ~call.ok

----------------------------------------------------------------------------
(* Claims on the command line, under MainSpec *)

\* C24: started with --no-sync the indexer skips reconciliation: the prologue
\* is not run, nothing is fetched from upstream, no task is dispatched and the
\* store stays as it was found.
C24_NoSyncSkips ==
    args.no_sync =>
        /\ driver.pc = "prologue"
        /\ driver.remote = {}
        /\ tasks = NoTasks
        /\ Store = prevStore

----------------------------------------------------------------------------
(* Claims on the order of a run, under Spec *)

\* C25: a task exists only once the three prologue calls and the purge have
\* returned: by then the listing is fetched, no disappeared plugin is left to
\* delete or has a row, and no task is for a purged plugin. Only the prologue,
\* before any task exists, turns a stale flag on, so an update a task has
\* marked non-stale stays so.
C25_PrologueOrdering ==
    /\ [](Dispatched # {} =>
            /\ driver.pc \in {"select", "returned"}
            /\ driver.remote = fetch_all_xml_ids(remote)
            /\ driver.local = known_plugin_xml_ids(prevStore.plugins)
            /\ driver.disappeared = {}
            /\ Disappeared \cap known_plugin_xml_ids(plugins) = {}
            /\ \A id \in Dispatched : id.plugin \notin Disappeared)
    /\ [](\A u \in UpdateIds : Touched(u) => ~updates[u].stale)
    /\ [][\A u \in DOMAIN updates :
            ~updates[u].stale /\ updates'[u].stale
                => driver.pc = "prologue" /\ Dispatched = {}]_vars

\* A run purged a plugin, and a task of it has marked non-stale an update
\* that the prologue of the run had turned stale.
C25_Witness ==
    /\ Disappeared # {}
    /\ \E u \in DOMAIN prevStore.updates :
        ~prevStore.updates[u].stale /\ Touched(u) /\ ~updates[u].stale

\* Both etags are present and equal.
PresentAndEqual(cached_etag, resolved_etag) ==
    cached_etag # None /\ resolved_etag # None /\ cached_etag = resolved_etag

\* C26: the step of sync_update_meta that does not find both etags present and
\* equal (one differs, one is absent, or both are absent) goes on to
\* hash_download_url, and the step after it hashes the file and writes etag,
\* file name, download url, hash algorithm and hash to the row.
C26_SlowPath ==
    [][\A id \in Dispatched :
          (/\ id.kind = "sync update meta"
           /\ id \in DOMAIN tasks'
           /\ tasks'[id] # tasks[id]
           /\ tasks[id].update_id \in DOMAIN updates)
          => LET u == tasks[id].update_id
                 info == resolve_update_download_info(remote, u)
             IN /\ (tasks[id].pc = "join" /\ ~PresentAndEqual(updates[u].etag, info.etag))
                    => tasks'[id].pc = "hash_download_url"
                /\ tasks[id].pc = "hash_download_url"
                    => /\ calls'.hash[u] = calls.hash[u] + 1
                       /\ updates'[u].etag = info.etag
                       /\ updates'[u].file_name = info.file_name
                       /\ updates'[u].download_url = info.url
                       /\ updates'[u].hash_algorithm # None
                       /\ updates'[u].hash # None]_vars

\* The primary key of a dependency row.
DependencyKey(d) == <<d.update_id, d.dependency_xml_id>>

\* C27: no step of a run, in any run, takes a dependency row away: a row for
\* (update, dependency) stays, whatever upstream reports for the update now.
C27_DependenciesNotPruned ==
    [][{DependencyKey(d) : d \in update_dependencies}
        \subseteq {DependencyKey(d) : d \in update_dependencies'}]_vars

\* In a second run sync_update_dependency_meta has succeeded for an update
\* whose metadata does not name d0, and the row (update, d0) is still there.
C27_Witness ==
    /\ driver.run = 2
    /\ \E id \in Dispatched :
        /\ id.kind = "sync update dependency meta"
        /\ tasks[id].outcome = "Succeeded"
        /\ LET u == tasks[id].update_id
               metadata == fetch_update_metadata(remote, NumericId(id.plugin), u)
           IN /\ "d0" \notin Range(metadata.dependencies)
                            \cup Range(metadata.optional_dependencies)
              /\ <<u, "d0">> \in {DependencyKey(d) : d \in update_dependencies}

\* sync_update_dependency_meta returns Ok in this step for task id.
DependencySyncSucceeds(id) ==
    /\ id.kind = "sync update dependency meta"
    /\ id \in DOMAIN tasks'
    /\ tasks[id].outcome # "Succeeded"
    /\ tasks'[id].outcome = "Succeeded"

DependencyRow(u, x, optional) ==
    [update_id |-> u, dependency_xml_id |-> x, optional |-> optional]

\* C28 as stated: when sync_update_dependency_meta succeeds for an update, every
\* xml-id of the dependencies list has a row with optional = false and every
\* xml-id of the optionalDependencies list a row with optional = true, also when
\* an xml-id is in both lists.
C28_BothListsHaveRows ==
    [][\A id \in Dispatched : DependencySyncSucceeds(id) =>
          LET u == tasks[id].update_id
              metadata == fetch_update_metadata(remote, NumericId(id.plugin), u)
          IN /\ \A x \in Range(metadata.dependencies) :
                    DependencyRow(u, x, FALSE) \in update_dependencies'
             /\ \A x \in Range(metadata.optional_dependencies) :
                    DependencyRow(u, x, TRUE) \in update_dependencies']_vars

\* C28, amended: when sync_update_dependency_meta succeeds for an update, every
\* xml-id of the optionalDependencies list has a row with optional = true, every
\* xml-id that is in the dependencies list only has a row with optional = false,
\* and the update has one row per xml-id.
C28_DependencyRows ==
    [][\A id \in Dispatched : DependencySyncSucceeds(id) =>
          LET u == tasks[id].update_id
              metadata == fetch_update_metadata(remote, NumericId(id.plugin), u)
          IN /\ \A x \in Range(metadata.optional_dependencies) :
                    DependencyRow(u, x, TRUE) \in update_dependencies'
             /\ \A x \in Range(metadata.dependencies)
                            \ Range(metadata.optional_dependencies) :
                    DependencyRow(u, x, FALSE) \in update_dependencies'
             /\ \A d, e \in update_dependencies' :
                    DependencyKey(d) = DependencyKey(e) => d = e]_vars

\* sync_update_dependency_meta has succeeded for an update whose metadata names
\* an xml-id in both lists, and the one row of that xml-id is optional.
C28_Witness ==
    \E id \in Dispatched :
        /\ id.kind = "sync update dependency meta"
        /\ tasks[id].outcome = "Succeeded"
        /\ LET u == tasks[id].update_id
               metadata == fetch_update_metadata(remote, NumericId(id.plugin), u)
           IN \E x \in Range(metadata.dependencies)
                        \cap Range(metadata.optional_dependencies) :
                {d \in update_dependencies : DependencyKey(d) = <<u, x>>}
                    = {DependencyRow(u, x, TRUE)}

----------------------------------------------------------------------------
(* Claims on the seed tasks, under FaultSpec *)

\* The stream of the known-plugins seed failed on the row of xml_id, and the
\* problem is on the channel or in the accountant's problems.
ProblemReported(xml_id) ==
    \/ TaskReport(KnownSeed, "EncounteredProblem", xml_id) \in statistics.receiver
    \/ [task_name |-> KnownSeed, error |-> xml_id] \in statistics.problems

\* C29: the known-plugins seed never fails and no Failed report bears its name;
\* every row its stream came to either was read and has its sync_plugin
\* dispatched, or gave an error that is reported as a problem; an error does not
\* end the loop: the seed ends only when it has come to every row that was in
\* the table when it started, and the step that ends it sends Succeeded.
C29_StreamErrorIsProblem ==
    /\ [](KnownSeed \in Dispatched =>
            /\ tasks[KnownSeed].outcome # "Failed"
            /\ TaskReport(KnownSeed, "Failed", None) \notin statistics.receiver
            /\ [task_name |-> KnownSeed] \notin statistics.failures
            /\ \A x \in tasks[KnownSeed].seen :
                    (Tid("sync plugin", x, "known", 0) \in Dispatched) # ProblemReported(x)
            /\ \A x \in XmlIds \ tasks[KnownSeed].seen : ~ProblemReported(x)
            /\ tasks[KnownSeed].pc = "done" =>
                    /\ tasks[KnownSeed].outcome = "Succeeded"
                    /\ known_plugin_xml_ids(prevStore.plugins) \ Disappeared
                            \subseteq tasks[KnownSeed].seen)
    /\ [][(/\ KnownSeed \in Dispatched
            /\ KnownSeed \in DOMAIN tasks'
            /\ tasks[KnownSeed].outcome = None
            /\ tasks'[KnownSeed].outcome # None)
           => TaskReport(KnownSeed, "Succeeded", None) \in statistics'.receiver]_vars

\* The run is over: the stream failed on one row, whose problem the accountant
\* holds, sync_plugin was dispatched for another row, and the seed succeeded.
C29_Witness ==
    /\ driver.pc = "returned"
    /\ KnownSeed \in Dispatched
    /\ tasks[KnownSeed].outcome = "Succeeded"
    /\ \E x, y \in tasks[KnownSeed].seen :
        /\ x # y
        /\ [task_name |-> KnownSeed, error |-> x] \in statistics.problems
        /\ Tid("sync plugin", x, "known", 0) \notin Dispatched
        /\ Tid("sync plugin", y, "known", 0) \in Dispatched

SyncNewPluginTasks == {id \in Dispatched : id.kind = "sync new plugin"}

\* C30: the new-plugins seed dispatches one sync_new_plugin for each xml-id of
\* remote minus local and for no other; until the task has fetched the details
\* and inserted the row the plugin has no row and no sync_plugin; a task that
\* succeeded has inserted the row with the fetched numeric id and dispatched
\* sync_plugin; a task that failed has left the plugin without row and without
\* sync_plugin and has a Failed report under its name; and the step that
\* dispatches the sync_plugin is the one that inserts the row.
C30_SyncNewPluginOrdering ==
    /\ [](NewSeed \in Dispatched =>
            SyncNewPluginTasks =
                IF tasks[NewSeed].pc = "done"
                THEN {Tid("sync new plugin", x, "new", 0) :
                        x \in all_new(driver.local, driver.remote)}
                ELSE {})
    /\ [](\A id \in SyncNewPluginTasks :
            LET here == {p \in plugins : p.xml_id = id.plugin}
                synced == SyncPluginTasks(id.plugin)
            IN /\ tasks[id].outcome = "Succeeded" =>
                    /\ here = {[xml_id |-> id.plugin,
                                numeric_id |-> fetch_plugin_details(remote, id.plugin).id]}
                    /\ Tid("sync plugin", id.plugin, "new", 0) \in synced
               /\ tasks[id].outcome # "Succeeded" => here = {} /\ synced = {}
               /\ tasks[id].outcome = "Failed" =>
                    \/ TaskReport(id, "Failed", None) \in statistics.receiver
                    \/ [task_name |-> id] \in statistics.failures)
    /\ [][\A x \in XmlIds :
            (/\ Tid("sync plugin", x, "new", 0) \in DOMAIN tasks'
             /\ Tid("sync plugin", x, "new", 0) \notin Dispatched)
            => /\ x \notin known_plugin_xml_ids(plugins)
               /\ x \in known_plugin_xml_ids(plugins')
               /\ tasks[Tid("sync new plugin", x, "new", 0)].outcome = None
               /\ tasks'[Tid("sync new plugin", x, "new", 0)].outcome = "Succeeded"]_vars

\* The run is over: the sync_new_plugin of a new plugin failed, the accountant
\* holds its failure, and the plugin has no row and no sync_plugin.
C30_Witness ==
    /\ driver.pc = "returned"
    /\ \E id \in SyncNewPluginTasks :
        /\ id.plugin \in all_new(driver.local, driver.remote)
        /\ tasks[id].outcome = "Failed"
        /\ [task_name |-> id] \in statistics.failures
        /\ id.plugin \notin known_plugin_xml_ids(plugins)
        /\ SyncPluginTasks(id.plugin) = {}

----------------------------------------------------------------------------
(* Claims on the reports of tasks, under FaultSpec *)

\* The Succeeded and Failed reports among a set of reports.
Terminal(reports) == {r \in reports : r.data \in {"Succeeded", "Failed"}}

Ended == {id \in Dispatched : tasks[id].outcome # None}

----------------------------------------------------------------------------
(* Claims on the dispatch tree, under Spec *)

\* C32: in one run at most one sync_plugin task is dispatched for a plugin.
C32_OneSyncPluginPerPlugin ==
    \A x \in XmlIds : Cardinality(SyncPluginTasks(x)) <= 1

----------------------------------------------------------------------------
(* Claims on the permits, under PermitSpec *)

\* The tasks whose locals own a permit of the large semaphore.
HoldingLarge == {id \in DOMAIN requests : "large" \in requests[id].permit}

\* C33: no permit is lost: the free permits of a semaphore and the permits owned
\* by operations in progress add up to its budget, an operation that has
\* returned, with a result or an error, owns none, and when no operation is in
\* progress every permit of both semaphores is free and nobody is queued.
C33_NoPermitLeak ==
    /\ small_request_semaphore.permits + Cardinality(HoldingSmall)
            = args.max_parallel_small_requests
    /\ large_request_semaphore.permits + Cardinality(HoldingLarge)
            = args.max_parallel_large_requests
    /\ \A id \in DOMAIN requests :
            requests[id].pc = "idle" => requests[id].permit = {}
    /\ (\A id \in DOMAIN requests : requests[id] = Idle) =>
            /\ small_request_semaphore = Semaphore(args.max_parallel_small_requests)
            /\ large_request_semaphore = Semaphore(args.max_parallel_large_requests)

\* Every task has ended, one of them on an error after a fallback download
\* was made, and both semaphores are as they were built.
C33_Witness ==
    /\ \A id \in DOMAIN requests : requests[id] = Idle /\ tasks[id].pc = "done"
    /\ \E id \in FailedTasks : id.kind = "sync update meta"
    /\ \E id \in Dispatched : tasks[id].hash_info = "SHA-256"
    /\ small_request_semaphore = Semaphore(args.max_parallel_small_requests)
    /\ large_request_semaphore = Semaphore(args.max_parallel_large_requests)

----------------------------------------------------------------------------
(* Claims on the update row of a failed sync_update_meta, under FaultSpec *)

\* The five download fields of an update row.
DownloadFields(row) ==
    <<row.etag, row.file_name, row.download_url, row.hash_algorithm, row.hash>>

FailedUpdateMeta == {id \in FailedTasks : id.kind = "sync update meta"}

\* C34: the step in which sync_update_meta fails changes no table; the row of
\* its update stays non-stale, and while the run has hashed nothing for the
\* update its five download fields are those the run found (NULL for a row the
\* run inserted); and a step changes a download field of a row only as the
\* write-back of a sync_update_meta that has hashed the file: it sets all five
\* to the resolved etag, file name and url and the hash with its algorithm.
C34_FailedUpdateMetaKeepsRow ==
    /\ [](\A id \in FailedUpdateMeta :
            LET u == tasks[id].update_id
                found == IF u \in DOMAIN prevStore.updates
                         THEN prevStore.updates[u] ELSE NewUpdateRow
            IN /\ u \in DOMAIN updates
               /\ ~updates[u].stale
               /\ calls.hash[u] = 0 =>
                    DownloadFields(updates[u]) = DownloadFields(found))
    /\ [][\A id \in Dispatched :
            (/\ id.kind = "sync update meta"
             /\ id \in DOMAIN tasks'
             /\ tasks[id].outcome = None
             /\ tasks'[id].outcome = "Failed") => Store' = Store]_vars
    /\ [][\A u \in DOMAIN updates :
            (u \in DOMAIN updates'
             /\ DownloadFields(updates'[u]) # DownloadFields(updates[u]))
            => LET info == resolve_update_download_info(remote, u)
                   hash_info == hash_download_url(remote, info.url)
               IN /\ calls'.hash[u] = calls.hash[u] + 1
                  /\ \E id \in Dispatched :
                        /\ id.kind = "sync update meta"
                        /\ tasks[id].update_id = u
                        /\ tasks[id].pc = "hash_download_url"
                        /\ tasks'[id].outcome = "Succeeded"
                  /\ DownloadFields(updates'[u])
                        = <<info.etag, info.file_name, info.url,
                            hash_info.algorithm, hash_info.value>>
                  /\ ~updates'[u].stale]_vars

\* The run is over: a sync_update_meta failed after it had resolved the
\* download of an update with a new etag, and the row, resolved by an earlier
\* run, is non-stale with its five fields as they were.
C34_Witness ==
    /\ driver.pc = "returned"
    /\ \E id \in FailedUpdateMeta :
        LET u == tasks[id].update_id
        IN /\ u \in DOMAIN prevStore.updates
           /\ tasks[id].download_info.url # None
           /\ tasks[id].download_info.etag # prevStore.updates[u].etag
           /\ ~updates[u].stale
           /\ updates[u].hash # None
           /\ DownloadFields(updates[u]) = DownloadFields(prevStore.updates[u])

====
